---- MODULE Spec2Model ----
(***************************************************************************)
(* State-machine model of app.py (NEL with Wikidata): NEL_App._annotate,   *)
(* NEL_App._new_view, NEL_App._add_tool_output, add_annotation and the     *)
(* Identifiers class.                                                      *)
(*                                                                         *)
(* Python dicts are functions over string keys ("k" in d is                *)
(* "k" \in DOMAIN d); dicts whose iteration order matters                  *)
(* (interested_entities, child_to_head) are sequences of [key, val] in     *)
(* insertion order.  Python's None is the string None where the value is   *)
(* a string (document ids).  The insertion order of an output record's     *)
(* properties is not represented.                                          *)
(***************************************************************************)
EXTENDS Integers, Sequences, FiniteSets, TLC

\* ------------------------------------------------------------- bounds
\* views per container built from the scenario views
MaxViews == 2
\* NamedEntity annotations of an exhaustively varied view
MaxEntities == 2
\* annotations of an exhaustively varied view, entities and edges together
MaxAnns == 4
\* annotate calls in one process (SpecRuns)
MaxRuns == 2

\* -------------------------------------------------------- vocabulary
Uri_NE == "http://vocab.lappsgrid.org/NamedEntity"
Uri_TOKEN == "http://vocab.lappsgrid.org/Token"
Uri_NEL == "http://vocab.lappsgrid.org/LinkedNamedEntity"
Uri_DEP == "http://vocab.lappsgrid.org/SyntacticRelation"
Uri_NELR == "http://vocab.lappsgrid.org/LinkedNamedEntityRelation"

\* os.path.basename(str(component)) on the type URIs in use
Basename(uri) ==
    CASE uri = Uri_NE -> "NamedEntity"
      [] uri = Uri_TOKEN -> "Token"
      [] uri = Uri_NEL -> "LinkedNamedEntity"
      [] uri = Uri_DEP -> "SyntacticRelation"
      [] uri = Uri_NELR -> "LinkedNamedEntityRelation"

\* the identifier sign_view stamps on a view this app creates
NEL_APP == "https://apps.clams.ai/named_entity_linking"
SPACY_APP == "https://apps.clams.ai/spacy_nlp"
OTHER_APP == "https://apps.clams.ai/tokenizer"

\* 'spacy_nlp' in str(view['metadata']['app'])
HasSpacyMarker(app) == app = SPACY_APP

None == "None"
EmptyDict == [k \in {} |-> None]

\* ------------------------------------------ insertion-ordered dicts
DictHas(d, k) == \E i \in 1..Len(d) : d[i].key = k
DictGet(d, k) == d[CHOOSE i \in 1..Len(d) : d[i].key = k].val
DictPut(d, k, v) ==
    IF DictHas(d, k)
    THEN [i \in 1..Len(d) |-> IF d[i].key = k THEN [key |-> k, val |-> v] ELSE d[i]]
    ELSE Append(d, [key |-> k, val |-> v])
DictKeys(d) == [i \in 1..Len(d) |-> d[i].key]
\* collections.defaultdict(dict): a missing key reads as an empty dict
DefaultGet(d, k) == IF DictHas(d, k) THEN DictGet(d, k) ELSE <<>>
\* dd[k1][k2] = v on a defaultdict(dict)
NestedPut(dd, k1, k2, v) == DictPut(dd, k1, DictPut(DefaultGet(dd, k1), k2, v))

\* ------------------------------------------------------ input pools
\* values of an annotation's "document" property
Docs == {"d1"}
RootPositions == {3, 5}
HeadPositions == {10, 11}
TextAt(r) == IF r = 3 THEN "Paris" ELSE "Rome"
HeadTextAt(h) == IF h = 10 THEN "visited" ELSE "left"
HeadLemmaAt(h) == IF h = 10 THEN "visit" ELSE "leave"
DepAt(c) == IF c = 3 THEN "nsubj" ELSE "dobj"

WithDocument(props, d) == IF d = None THEN props ELSE props @@ ("document" :> d)

EntityAnn(r, d) ==
    [at_type |-> Uri_NE,
     properties |-> WithDocument([text |-> TextAt(r), category |-> "GPE", root_i |-> r,
                                  start |-> 0, end |-> 5], d)]
DepAnn(c, h, d) ==
    [at_type |-> Uri_DEP,
     properties |-> WithDocument([child_i |-> c, head_i |-> h, dep |-> DepAt(c),
                                  head_text |-> HeadTextAt(h),
                                  head_lemma |-> HeadLemmaAt(h)], d)]

TokenAnn == [at_type |-> Uri_TOKEN, properties |-> [word |-> "in", start |-> 6, end |-> 8]]

EntityPool == {EntityAnn(r, d) : r \in RootPositions, d \in Docs \cup {None}}
\* the edges 3 -> 10, 5 -> 10 and 5 -> 11, each without and with a document
DepPool == {DepAnn(ch[1], ch[2], d) : ch \in {<<3, 10>>, <<5, 10>>, <<5, 11>>}, d \in Docs \cup {None}}

\* view['metadata']['contains'] of the upstream NER's views: type URI ->
\* descriptor, without and with a document sub-field
NerContains == (Uri_NE :> EmptyDict) @@ (Uri_DEP :> EmptyDict)
NerContainsDoc == (Uri_NE :> ("document" :> "d1")) @@ (Uri_DEP :> ("document" :> "d1"))

ViewId(n) == "v" \o ToString(n)

MkView(n, a, c, anns) ==
    [id |-> ViewId(n), metadata |-> [app |-> a, contains |-> c], annotations |-> anns]

\* scenario 1: a view-level document, one entity
Scenario1View(n) == MkView(n, SPACY_APP, NerContainsDoc, <<EntityAnn(3, None)>>)
\* scenario 3: two entities under one head (and a token between them)
Scenario3View(n) ==
    MkView(n, SPACY_APP, NerContains,
           <<EntityAnn(3, None), TokenAnn, EntityAnn(5, None), DepAnn(3, 10, None), DepAnn(5, 10, None)>>)
\* scenario 4: two entities under different heads
Scenario4View(n) ==
    MkView(n, SPACY_APP, NerContains,
           <<EntityAnn(3, None), EntityAnn(5, None), DepAnn(3, 10, None), DepAnn(5, 11, None)>>)
\* two scopes in one view: entities at 3 and 5 and their edges to head 10, once
\* without a document and once in document d1
MixedScopeView(n) ==
    MkView(n, SPACY_APP, NerContains,
           <<EntityAnn(3, None), EntityAnn(5, None), EntityAnn(3, "d1"), EntityAnn(5, "d1"),
             DepAnn(3, 10, None), DepAnn(5, 10, None), DepAnn(3, 10, "d1"), DepAnn(5, 10, "d1")>>)
\* views that are not eligible: another producer; no NamedEntity declared
OtherAppView(n) == MkView(n, OTHER_APP, NerContains, <<EntityAnn(3, None)>>)
TokenView(n) == MkView(n, SPACY_APP, (Uri_TOKEN :> EmptyDict), <<TokenAnn>>)

ScenarioViews(n) == {Scenario1View(n), Scenario3View(n), OtherAppView(n), TokenView(n)}

\* the containers of k views, each a scenario view
RECURSIVE ScenarioSeqs(_)
ScenarioSeqs(k) ==
    IF k = 0 THEN {<<>>}
    ELSE {Append(c, v) : c \in ScenarioSeqs(k - 1), v \in ScenarioViews(k)}

\* the containers a caller submits one after another in SpecRuns
ScenarioContainers ==
    {<<Scenario1View(1)>>, <<Scenario3View(1)>>, <<Scenario4View(1)>>,
     <<OtherAppView(1), Scenario1View(2)>>}

\* ------------------------------------- knowledge-base collaborator
WikidataId(text) == IF text = "Paris" THEN "Q90" ELSE "Q220"
FullEntry(text) ==
    [id |-> WikidataId(text), label |-> text, description |-> "capital city",
     url |-> "//www.wikidata.org/wiki/" \o WikidataId(text)]
EntryFields == {"id", "label", "description", "url"}
\* the field the knowledge base may lack on the entry for a text
MissingField(text) == IF text = "Paris" THEN "label" ELSE "description"
Restrict(f, S) == [k \in S |-> f[k]]
\* what request.submit() returns for a search (limit 1): no result, the full
\* entry, or the entry without one field
SearchResults(text) ==
    {[search |-> <<>>], [search |-> <<FullEntry(text)>>],
     [search |-> <<Restrict(FullEntry(text), EntryFields \ {MissingField(text)})>>]}

\* ------------------------------------------------------------ state
VARIABLES
    pc,                  \* where the caller / _annotate stands
    run,                 \* annotate calls started in this process
    identifiers,         \* Identifiers.identifiers (class attribute)
    input,               \* the views of the container handed to _annotate
    mmif,                \* self.mmif.views
    vi,                  \* position of _annotate's loop in list(self.mmif.views)
    ai,                  \* position of the entity loop in old_view['annotations']
    view_id,             \* _add_tool_output's view_id argument
    interested_entities, \* _add_tool_output's local dict
    child_to_head,       \* _add_tool_output's local dict
    result,              \* what the annotate call returned
    error,               \* the exception that ended the call, if any
    lookups,             \* history: the getItems calls of this run and their outcomes
    links,               \* history: the source annotations of each relation record
    opened,              \* history: the source view of each view this run created
    prev                 \* history: the previous annotate call of this process

vars == <<pc, run, identifiers, input, mmif, vi, ai, view_id, interested_entities,
          child_to_head, result, error, lookups, links, opened, prev>>

Prefixes == {"nel", "nelr"}
NoResult == [returned |-> FALSE, views |-> <<>>]
NoPrev == [valid |-> FALSE, input |-> <<>>, lookups |-> <<>>, result |-> NoResult, error |-> None]

\* ------------------------------------------------------ Identifiers
\* collections.defaultdict(int): every prefix reads 0 until counted
IdentifiersFresh == [p \in Prefixes |-> 0]
\* variant (not the code): reset leaves the counters as they are
IdentifiersKept(ids) == ids
IdentifiersReset(ids) == IdentifiersFresh
\* variant (not the code): the counter is read but not advanced
NewCountStale(ids, prefix) == ids[prefix]
NewCount(ids, prefix) == ids[prefix] + 1
\* Identifiers.new: the counters after the call, and the identifier returned
IdentifiersNew(ids, prefix) ==
    [identifiers |-> [ids EXCEPT ![prefix] = NewCount(ids, prefix)],
     id |-> prefix \o ToString(NewCount(ids, prefix))]

\* ---------------------------------------------------- add_annotation
\* span holds those of start and end that are not None
AddAnnotation(view, attype, identifier, doc_id, span, properties) ==
    LET doc == IF doc_id # None THEN ("document" :> doc_id) ELSE EmptyDict
        a == [at_type |-> attype, id |-> identifier, properties |-> properties @@ span @@ doc]
    IN [view EXCEPT !.annotations = Append(@, a)]

\* --------------------------------------------------------- _annotate
Components(view) == {Basename(c) : c \in DOMAIN view.metadata.contains}
\* variant (not the code): the producer is not looked at
EligibleAnyApp(view) == "NamedEntity" \in Components(view)
Eligible(view) == HasSpacyMarker(view.metadata.app) /\ "NamedEntity" \in Components(view)

\* variant (not the code): the document sub-field is taken without the view's identifier
ViewDocIdBare(view) ==
    LET cs == {c \in DOMAIN view.metadata.contains :
                  Basename(c) = "NamedEntity" /\ "document" \in DOMAIN view.metadata.contains[c]}
    IN IF cs = {} THEN None ELSE view.metadata.contains[CHOOSE c \in cs : TRUE].document

\* lines 86-92: the document id taken from the view's metadata, or None
ViewDocId(view) ==
    LET cs == {c \in DOMAIN view.metadata.contains :
                  Basename(c) = "NamedEntity" /\ "document" \in DOMAIN view.metadata.contains[c]}
    IN IF cs = {} THEN None
       ELSE view.id \o ":" \o view.metadata.contains[CHOOSE c \in cs : TRUE].document

\* _new_view: mmif.new_view(), sign_view, new_contain for both output types
NewView(views, docid) ==
    [id |-> ViewId(Len(views) + 1),
     metadata |-> [app |-> NEL_APP,
                   contains |-> (Uri_NEL :> ("document" :> docid)) @@ (Uri_NELR :> ("document" :> docid))],
     annotations |-> <<>>]

Init ==
    /\ pc = "idle"
    /\ run = 0
    /\ identifiers = IdentifiersFresh
    /\ input = <<>>
    /\ mmif = <<>>
    /\ vi = 1
    /\ ai = 1
    /\ view_id = None
    /\ interested_entities = <<>>
    /\ child_to_head = <<>>
    /\ result = NoResult
    /\ error = None
    /\ lookups = <<>>
    /\ links = <<>>
    /\ opened = <<>>
    /\ prev = NoPrev

\* _annotate is entered: the counters are reset and the container is taken
Annotate(m) ==
    /\ pc = "idle"
    /\ pc' = "scan"
    /\ run' = run + 1
    /\ identifiers' = IdentifiersReset(identifiers)
    /\ input' = m
    /\ mmif' = m
    /\ vi' = 1
    /\ result' = NoResult
    /\ error' = None
    /\ lookups' = <<>>
    /\ links' = <<>>
    /\ opened' = <<>>
    /\ UNCHANGED <<ai, view_id, interested_entities, child_to_head, prev>>

\* the view at vi is not one of the upstream NER's: the loop moves on
SkipView ==
    /\ pc = "scan"
    /\ vi <= Len(input)
    /\ ~Eligible(input[vi])
    /\ vi' = vi + 1
    /\ UNCHANGED <<pc, run, identifiers, input, mmif, ai, view_id, interested_entities,
                   child_to_head, result, error, lookups, links, opened, prev>>

\* the view at vi is eligible: a new view is opened and _add_tool_output entered
OpenView ==
    /\ pc = "scan"
    /\ vi <= Len(input)
    /\ Eligible(input[vi])
    /\ LET doc_id == ViewDocId(input[vi])
       IN /\ mmif' = Append(mmif, NewView(mmif, doc_id))
          /\ view_id' = IF doc_id = None THEN input[vi].id ELSE None
    /\ pc' = "entities"
    /\ ai' = 1
    /\ interested_entities' = <<>>
    /\ child_to_head' = <<>>
    /\ opened' = Append(opened, vi)
    /\ UNCHANGED <<run, identifiers, input, vi, result, error, lookups, links, prev>>

\* the loop over the views is over: the container is returned
Return ==
    /\ pc = "scan"
    /\ vi > Len(input)
    /\ pc' = "done"
    /\ result' = [returned |-> TRUE, views |-> mmif]
    /\ UNCHANGED <<run, identifiers, input, mmif, vi, ai, view_id, interested_entities,
                   child_to_head, error, lookups, links, opened, prev>>

\* -------------------------------------------------- _add_tool_output
\* the implicit scope of an annotation without a document (Python's int 0; no
\* document of the pool is named "0")
DefaultScope == "0"
HasDocument(ann) == "document" \in DOMAIN ann.properties
\* line 149
EntityScopeKey(ann) == IF HasDocument(ann) THEN ann.properties.document ELSE DefaultScope
\* variant (not the code): every dependency edge is filed under the implicit scope
DepScopeKeyDefault(ann) == DefaultScope
\* line 157
DepScopeKey(ann) == IF HasDocument(ann) THEN ann.properties.document ELSE DefaultScope

\* the next NamedEntity annotation of the view at or after position i (0: none)
NextEntity(view, i) ==
    LET js == {j \in i..Len(view.annotations) : view.annotations[j].at_type = Uri_NE}
    IN IF js = {} THEN 0 ELSE CHOOSE j \in js : \A k \in js : j <= k

\* lines 128-130: the document id written on an entity-link record
EntityDocId(ann, vid) ==
    LET doc_id == IF HasDocument(ann) THEN ann.properties.document ELSE None
    IN IF vid # None /\ doc_id # None THEN vid \o ":" \o doc_id ELSE doc_id

\* line 132: the first candidate (an empty dict stands for None)
FirstEntry(wikidataEntries) ==
    IF Len(wikidataEntries.search) > 0 THEN wikidataEntries.search[1] ELSE EmptyDict
\* variant (not the code): an empty result list is taken for a candidate
MatchedAlways(wikidataEntries) == TRUE
\* line 133: firstEntry != None
Matched(wikidataEntries) == Len(wikidataEntries.search) > 0

InterestedKeys == {"url", "label", "description"}
AnnotationPropertyOrder ==
    {"root_i", "text", "label", "category", "description", "wikidata_id", "url", "id"}

\* lines 135-142: the properties of an entity-link record
EntityProperties(ann, firstEntry) ==
    LET base == [text |-> ann.properties.text, category |-> ann.properties.category,
                 root_i |-> ann.properties.root_i]
        wid == IF "id" \in DOMAIN firstEntry THEN ("wikidata_id" :> firstEntry.id) ELSE EmptyDict
        rest == [k \in InterestedKeys \cap DOMAIN firstEntry |-> firstEntry[k]]
        properties == rest @@ wid @@ base
    IN [k \in AnnotationPropertyOrder \cap DOMAIN properties |-> properties[k]]

CurrentEntity == NextEntity(input[vi], ai)

\* variant (not the code): the failure is swallowed and the entity passed over
LookupFailsSwallowed ==
    /\ pc = "entities"
    /\ CurrentEntity # 0
    /\ lookups' = Append(lookups, [view |-> vi, ann |-> CurrentEntity, failed |-> TRUE,
                                   search |-> <<>>, id |-> None])
    /\ ai' = CurrentEntity + 1
    /\ UNCHANGED <<pc, run, identifiers, input, mmif, vi, view_id, interested_entities,
                   child_to_head, result, error, links, opened, prev>>

\* getItems raises: the exception leaves _annotate
LookupFails ==
    /\ pc = "entities"
    /\ CurrentEntity # 0
    /\ pc' = "error"
    /\ error' = "SearchFailure"
    /\ lookups' = Append(lookups, [view |-> vi, ann |-> CurrentEntity, failed |-> TRUE,
                                   search |-> <<>>, id |-> None])
    /\ UNCHANGED <<run, identifiers, input, mmif, vi, ai, view_id, interested_entities,
                   child_to_head, result, links, opened, prev>>

\* getItems returns an empty result list: the entity is passed over
LookupNoMatch ==
    /\ pc = "entities"
    /\ CurrentEntity # 0
    /\ \E wikidataEntries \in SearchResults(input[vi].annotations[CurrentEntity].properties.text) :
          /\ ~Matched(wikidataEntries)
          /\ lookups' = Append(lookups, [view |-> vi, ann |-> CurrentEntity, failed |-> FALSE,
                                         search |-> wikidataEntries.search, id |-> None])
    /\ ai' = CurrentEntity + 1
    /\ UNCHANGED <<pc, run, identifiers, input, mmif, vi, view_id, interested_entities,
                   child_to_head, result, error, links, opened, prev>>

\* getItems returns a candidate: an entity-link record is written and the
\* entity is kept under its scope and root position
LookupMatch ==
    /\ pc = "entities"
    /\ CurrentEntity # 0
    /\ LET annotation == input[vi].annotations[CurrentEntity]
       IN \E wikidataEntries \in SearchResults(annotation.properties.text) :
            /\ Matched(wikidataEntries)
            /\ LET properties == EntityProperties(annotation, FirstEntry(wikidataEntries))
                   new == IdentifiersNew(identifiers, "nel")
                   span == [start |-> annotation.properties.start, end |-> annotation.properties.end]
               IN /\ mmif' = [mmif EXCEPT ![Len(mmif)] =
                                 AddAnnotation(@, Uri_NEL, new.id, EntityDocId(annotation, view_id),
                                               span, properties)]
                  /\ identifiers' = new.identifiers
                  /\ interested_entities' =
                        NestedPut(interested_entities, EntityScopeKey(annotation),
                                  annotation.properties.root_i,
                                  [properties |-> properties, ann |-> CurrentEntity])
                  /\ lookups' = Append(lookups, [view |-> vi, ann |-> CurrentEntity, failed |-> FALSE,
                                                 search |-> wikidataEntries.search, id |-> new.id])
    /\ ai' = CurrentEntity + 1
    /\ UNCHANGED <<pc, run, input, vi, view_id, child_to_head, result, error, links, opened, prev>>

\* lines 154-159: the dependency edges of the view by scope and child position
\* (ann: history, the position of the annotation the entry was read from)
RECURSIVE ChildToHead(_, _)
ChildToHead(anns, n) ==
    IF n = 0 THEN <<>>
    ELSE LET d == ChildToHead(anns, n - 1)
             a == anns[n]
         IN IF a.at_type = Uri_DEP
            THEN NestedPut(d, DepScopeKey(a), a.properties.child_i,
                           [dep |-> a.properties.dep, head_text |-> a.properties.head_text,
                            head_lemma |-> a.properties.head_lemma, head_i |-> a.properties.head_i,
                            ann |-> n])
            ELSE d

\* lines 162-164: the (doc_id, i1, i2) the three nested loops visit, in order
PairsOfScope(doc_id, keys) ==
    [k \in 1..(Len(keys) * Len(keys)) |->
        [doc_id |-> doc_id, i1 |-> keys[((k - 1) \div Len(keys)) + 1],
         i2 |-> keys[((k - 1) % Len(keys)) + 1]]]
RECURSIVE PairsFrom(_, _)
PairsFrom(ie, s) ==
    IF s > Len(ie) THEN <<>>
    ELSE PairsOfScope(ie[s].key, DictKeys(ie[s].val)) \o PairsFrom(ie, s + 1)

\* lines 165-166
Qualifies(t, cth) ==
    /\ t.i1 < t.i2
    /\ DictHas(DefaultGet(cth, t.doc_id), t.i1)
    /\ DictHas(DefaultGet(cth, t.doc_id), t.i2)
    /\ DictGet(DictGet(cth, t.doc_id), t.i1).head_i = DictGet(DictGet(cth, t.doc_id), t.i2).head_i

\* lines 167-174 read these keys of both entities without a test
RelationKeys == {"text", "label", "root_i", "wikidata_id"}
RaisesKeyError(t, ie) ==
    \/ ~(RelationKeys \subseteq DOMAIN DictGet(DictGet(ie, t.doc_id), t.i1).properties)
    \/ ~(RelationKeys \subseteq DOMAIN DictGet(DictGet(ie, t.doc_id), t.i2).properties)

\* lines 167-174: the properties of a relation record
RelationProperties(t, ie, cth) ==
    LET e1 == DictGet(DictGet(ie, t.doc_id), t.i1).properties
        e2 == DictGet(DictGet(ie, t.doc_id), t.i2).properties
        c1 == DictGet(DictGet(cth, t.doc_id), t.i1)
        c2 == DictGet(DictGet(cth, t.doc_id), t.i2)
    IN [e1_text |-> e1.text, e1_label |-> e1.label, e1_root_i |-> e1.root_i,
        e1_wikidata_id |-> e1.wikidata_id, e1_dep |-> c1.dep,
        e2_text |-> e2.text, e2_label |-> e2.label, e2_root_i |-> e2.root_i,
        e2_wikidata_id |-> e2.wikidata_id, e2_dep |-> c2.dep,
        rel_text |-> c1.head_text, rel_lemma |-> c1.head_lemma, rel_i |-> c1.head_i]

\* lines 175-177: the document id written on a relation record
RelationDocId(doc_id, vid) ==
    LET doc_id_for_annotation == IF doc_id # DefaultScope THEN doc_id ELSE None
    IN IF vid # None /\ doc_id_for_annotation # None
       THEN vid \o ":" \o doc_id_for_annotation
       ELSE doc_id_for_annotation

\* the qualifying pairs in the order the search meets them
QualifyingPairs(ie, cth) ==
    LET Test(t) == Qualifies(t, cth) IN SelectSeq(PairsFrom(ie, 1), Test)

\* how many of the qualifying pairs get a record before a KeyError, if any,
\* ends the search
WrittenCount(q, ie) ==
    LET bad == {k \in 1..Len(q) : RaisesKeyError(q[k], ie)}
    IN IF bad = {} THEN Len(q) ELSE (CHOOSE k \in bad : \A j \in bad : k <= j) - 1

\* lines 178-181 for the first n qualifying pairs: the new view, the counters
\* and the history of the records' source annotations
RECURSIVE WriteRelations(_, _, _, _, _)
WriteRelations(q, n, ie, cth, st) ==
    IF n = 0 THEN st
    ELSE LET before == WriteRelations(q, n - 1, ie, cth, st)
             t == q[n]
             new == IdentifiersNew(before.identifiers, "nelr")
         IN [identifiers |-> new.identifiers,
             view |-> AddAnnotation(before.view, Uri_NELR, new.id, RelationDocId(t.doc_id, view_id),
                                    EmptyDict, RelationProperties(t, ie, cth)),
             links |-> Append(before.links,
                              [view |-> vi, id |-> new.id, scope |-> t.doc_id,
                               e1 |-> DictGet(DictGet(ie, t.doc_id), t.i1).ann,
                               e2 |-> DictGet(DictGet(ie, t.doc_id), t.i2).ann,
                               c1 |-> DictGet(DictGet(cth, t.doc_id), t.i1).ann,
                               c2 |-> DictGet(DictGet(cth, t.doc_id), t.i2).ann])]

\* the entity loop is over: the dependency edges are indexed and the relation
\* search runs; raised tells whether it ends in a KeyError
SearchRelations(raised) ==
    /\ pc = "entities"
    /\ CurrentEntity = 0
    /\ LET cth == ChildToHead(input[vi].annotations, Len(input[vi].annotations))
           q == QualifyingPairs(interested_entities, cth)
           n == WrittenCount(q, interested_entities)
           st == WriteRelations(q, n, interested_entities, cth,
                                [identifiers |-> identifiers, view |-> mmif[Len(mmif)],
                                 links |-> links])
       IN /\ raised = (n < Len(q))
          /\ child_to_head' = cth
          /\ mmif' = [mmif EXCEPT ![Len(mmif)] = st.view]
          /\ identifiers' = st.identifiers
          /\ links' = st.links
    /\ ai' = Len(input[vi].annotations) + 1
    /\ UNCHANGED <<run, input, view_id, interested_entities, result, lookups, opened, prev>>

\* the relation search completes: _add_tool_output returns to the view loop
LinkRelations ==
    /\ SearchRelations(FALSE)
    /\ pc' = "scan"
    /\ vi' = vi + 1
    /\ error' = error

\* the relation search reads a key the candidate did not carry
LinkRelationsRaises ==
    /\ SearchRelations(TRUE)
    /\ pc' = "error"
    /\ vi' = vi
    /\ error' = "KeyError"

\* the caller calls annotate again in the same process
Again ==
    /\ pc \in {"done", "error"}
    /\ run < MaxRuns
    /\ pc' = "idle"
    /\ prev' = [valid |-> TRUE, input |-> input, lookups |-> lookups, result |-> result,
                error |-> error]
    /\ UNCHANGED <<run, identifiers, input, mmif, vi, ai, view_id, interested_entities,
                   child_to_head, result, error, lookups, links, opened>>

\* the rest of a run, once _annotate is entered
Step ==
    \/ SkipView
    \/ OpenView
    \/ LookupFails
    \/ LookupNoMatch
    \/ LookupMatch
    \/ LinkRelations
    \/ LinkRelationsRaises
    \/ Return

\* a caller submits a container of one eligible view without a view-level
\* document, its annotation list (the entities, then the dependency edges)
\* varied over the pools
SubmitView ==
    /\ pc = "idle"
    /\ \E a \in 0..MaxEntities :
         \E b \in 0..(MaxAnns - a) :
           \E es \in [1..a -> EntityPool], ds \in [1..b -> DepPool] :
              Annotate(<<MkView(1, SPACY_APP, NerContains, es \o ds)>>)

\* a caller submits a container of one eligible view with a view-level
\* document, its entities varied over the pool, with the edges 3 -> 10 and
\* 5 -> 10 of both scopes
SubmitDocView ==
    /\ pc = "idle"
    /\ \E a \in 0..MaxEntities :
         \E es \in [1..a -> EntityPool] :
            Annotate(<<MkView(1, SPACY_APP, NerContainsDoc,
                              es \o <<DepAnn(3, 10, None), DepAnn(5, 10, None),
                                      DepAnn(3, 10, "d1"), DepAnn(5, 10, "d1")>>)>>)

\* a caller submits a container of up to MaxViews scenario views, or the
\* mixed-scope view alone
SubmitViews ==
    /\ pc = "idle"
    /\ \/ \E k \in 0..MaxViews : \E m \in ScenarioSeqs(k) : Annotate(m)
       \/ Annotate(<<MixedScopeView(1)>>)

Next == SubmitView \/ SubmitDocView \/ SubmitViews \/ Step

Spec == Init /\ [][Next]_vars

\* a caller submits one of the scenario containers
SubmitScenario == pc = "idle" /\ \E m \in ScenarioContainers : Annotate(m)

NextRuns == SubmitScenario \/ Step \/ Again

SpecRuns == Init /\ [][NextRuns]_vars

\* ------------------------------------------------------------ claims
\* the positions in self.mmif of the views this run created
NewViewPositions == (Len(input) + 1)..Len(mmif)
\* the records of a type this run has emitted, as (view position, index)
Emitted(attype) ==
    UNION {{<<v, i>> : i \in {j \in 1..Len(mmif[v].annotations) :
                                    mmif[v].annotations[j].at_type = attype}} :
              v \in NewViewPositions}
RecordAt(p) == mmif[p[1]].annotations[p[2]]
\* the records of a type in one view, in the order written
RecordsIn(view, attype) == LET Test(a) == a.at_type = attype IN SelectSeq(view.annotations, Test)
\* the position in self.mmif of the view opened for source view s
NewViewOf(s) == Len(input) + (CHOOSE k \in 1..Len(opened) : opened[k] = s)
\* a view of the upstream NER that declares NamedEntity, said on the metadata
IsNerView(view) == view.metadata.app = SPACY_APP /\ Uri_NE \in DOMAIN view.metadata.contains
\* the scope of an input annotation, said on its properties
ScopeOf(ann) == IF "document" \in DOMAIN ann.properties THEN ann.properties.document ELSE "0"
\* the lookups of this run for source view s that found a candidate
MatchesOf(s) == LET Test(l) == l.view = s /\ ~l.failed /\ l.search # <<>> IN SelectSeq(lookups, Test)

\* C1: within one run the identifiers of the entity-link records are pairwise
\* distinct, and so are those of the relation records, over all the views the
\* run creates.
C1_IdentifiersDistinct ==
    \A attype \in {Uri_NEL, Uri_NELR} :
        \A p, q \in Emitted(attype) : p # q => RecordAt(p).id # RecordAt(q).id

\* a finished run that created two views, each with two entity-link records
\* and a relation record
C1_Witness ==
    /\ pc = "done"
    /\ Len(opened) = 2
    /\ \A v \in NewViewPositions :
          /\ Len(RecordsIn(mmif[v], Uri_NEL)) = 2
          /\ Len(RecordsIn(mmif[v], Uri_NELR)) = 1

\* the first record of a type this run emitted, in container order
FirstEmitted(attype) ==
    CHOOSE p \in Emitted(attype) :
        \A q \in Emitted(attype) : p[1] < q[1] \/ (p[1] = q[1] /\ p[2] <= q[2])
\* what the knowledge base answered, lookup by lookup
Answers(ls) == [k \in 1..Len(ls) |-> [failed |-> ls[k].failed, search |-> ls[k].search]]
\* the run that just ended got the container and the answers of the run before
SameAsPrevious ==
    /\ pc \in {"done", "error"}
    /\ prev.valid
    /\ prev.input = input
    /\ Answers(prev.lookups) = Answers(lookups)

\* C2: every run starts its identifier counters afresh: the first entity-link
\* record of a run is "nel1" and its first relation record "nelr1", whatever
\* the runs before emitted, and a run on the same container with the same
\* knowledge-base answers as the run before ends the same way with the same
\* output.
C2_CountersRestart ==
    /\ pc # "idle" /\ Emitted(Uri_NEL) # {} => RecordAt(FirstEmitted(Uri_NEL)).id = "nel1"
    /\ pc # "idle" /\ Emitted(Uri_NELR) # {} => RecordAt(FirstEmitted(Uri_NELR)).id = "nelr1"
    /\ SameAsPrevious => result = prev.result /\ error = prev.error

\* a second run on the same container with the same answers, both runs
\* returning entity-link and relation records
C2_Witness ==
    /\ SameAsPrevious
    /\ run = 2
    /\ pc = "done"
    /\ Emitted(Uri_NEL) # {}
    /\ Emitted(Uri_NELR) # {}

\* the positions of the eligible views among the first n views of the input
RECURSIVE NerViewsUpTo(_)
NerViewsUpTo(n) ==
    IF n = 0 THEN <<>>
    ELSE IF IsNerView(input[n]) THEN Append(NerViewsUpTo(n - 1), n) ELSE NerViewsUpTo(n - 1)

\* C9: annotate changes the container only by appending views: the input
\* views stay as they were, followed by one new view per eligible input view
\* reached so far, in container order; the returned container holds exactly
\* one per eligible view, a new view whose source had no resolved entity is
\* empty, and a container without eligible views is returned as it came.
C9_OnlyAppendsViews ==
    pc # "idle" =>
        /\ Len(mmif) = Len(input) + Len(opened)
        /\ SubSeq(mmif, 1, Len(input)) = input
        /\ opened = NerViewsUpTo(IF pc = "entities" \/ pc = "error" THEN vi ELSE vi - 1)
        /\ \A k \in 1..Len(opened) :
              /\ mmif[Len(input) + k].metadata.app = NEL_APP
              /\ DOMAIN mmif[Len(input) + k].metadata.contains = {Uri_NEL, Uri_NELR}
              /\ MatchesOf(opened[k]) = <<>> => mmif[Len(input) + k].annotations = <<>>
        /\ pc = "done" =>
              /\ result.returned
              /\ result.views = mmif
              /\ opened = NerViewsUpTo(Len(input))
              /\ NerViewsUpTo(Len(input)) = <<>> => result.views = input

\* a returned container of two input views, the first not eligible, the
\* second eligible with an entity that did not resolve: one new, empty view
C9_Witness ==
    /\ pc = "done"
    /\ Len(input) = 2
    /\ opened = <<2>>
    /\ Len(lookups) > 0
    /\ Len(result.views) = 3
    /\ result.views[3].annotations = <<>>

\* the NamedEntity annotations of the eligible views, as (view, annotation)
\* positions in container order
RECURSIVE EntitiesOfView(_, _)
EntitiesOfView(s, n) ==
    IF n = 0 THEN <<>>
    ELSE IF input[s].annotations[n].at_type = Uri_NE
         THEN Append(EntitiesOfView(s, n - 1), <<s, n>>)
         ELSE EntitiesOfView(s, n - 1)
RECURSIVE EntitiesUpTo(_)
EntitiesUpTo(s) ==
    IF s = 0 THEN <<>>
    ELSE IF IsNerView(input[s])
         THEN EntitiesUpTo(s - 1) \o EntitiesOfView(s, Len(input[s].annotations))
         ELSE EntitiesUpTo(s - 1)
Asked(ls) == [k \in 1..Len(ls) |-> <<ls[k].view, ls[k].ann>>]

\* C10: a failed knowledge-base search is fatal for the run: it is the last
\* lookup of the run (no retry, no further lookup), the run ends in an error
\* and returns no container, and no record is written after it; a run that
\* returns has looked up every NamedEntity annotation of every eligible view
\* exactly once, in order.
C10_SearchFailureIsFatal ==
    pc # "idle" =>
        /\ \A k \in 1..Len(lookups) :
              lookups[k].failed =>
                  /\ k = Len(lookups)
                  /\ pc = "error"
                  /\ error = "SearchFailure"
                  /\ ~result.returned
                  /\ RecordsIn(mmif[NewViewOf(lookups[k].view)], Uri_NELR) = <<>>
                  /\ Len(RecordsIn(mmif[NewViewOf(lookups[k].view)], Uri_NEL))
                        = Len(MatchesOf(lookups[k].view))
        /\ \A k \in 1..Len(lookups) : Asked(lookups)[k] = EntitiesUpTo(Len(input))[k]
        /\ pc = "done" => Asked(lookups) = EntitiesUpTo(Len(input))

\* a run ended by the failure of its second lookup, with an entity of a later
\* eligible view never looked up
C10_Witness ==
    /\ pc = "error"
    /\ error = "SearchFailure"
    /\ Len(lookups) = 2
    /\ lookups[2].failed
    /\ Len(EntitiesUpTo(Len(input))) > 2
    /\ vi < Len(input)

\* the history entries of the relation records written for source view s
LinksOf(s) == LET Test(l) == l.view = s IN SelectSeq(links, Test)

\* C3: every relation record pairs two entities and two dependency edges of
\* one source view that all belong to one document scope (the annotation's
\* document, or the implicit scope); no record draws on two scopes.
C3_ScopeIsolation ==
    /\ Len(links) = Cardinality(Emitted(Uri_NELR))
    /\ \A k \in 1..Len(links) :
          LET l == links[k]
              anns == input[l.view].annotations
              recs == RecordsIn(mmif[NewViewOf(l.view)], Uri_NELR)
          IN /\ anns[l.e1].at_type = Uri_NE /\ anns[l.e2].at_type = Uri_NE
             /\ anns[l.c1].at_type = Uri_DEP /\ anns[l.c2].at_type = Uri_DEP
             /\ ScopeOf(anns[l.e1]) = ScopeOf(anns[l.e2])
             /\ ScopeOf(anns[l.c1]) = ScopeOf(anns[l.e1])
             /\ ScopeOf(anns[l.c2]) = ScopeOf(anns[l.e1])
             /\ \E j \in 1..Len(recs) :
                   /\ recs[j].id = l.id
                   /\ recs[j].properties.e1_root_i = anns[l.e1].properties.root_i
                   /\ recs[j].properties.e2_root_i = anns[l.e2].properties.root_i
                   /\ recs[j].properties.e1_root_i = anns[l.c1].properties.child_i
                   /\ recs[j].properties.e2_root_i = anns[l.c2].properties.child_i
                   /\ recs[j].properties.rel_i = anns[l.c1].properties.head_i

\* a finished view with a relation record in one scope and, in another scope,
\* an entity and an edge to the same head
C3_Witness ==
    /\ pc = "done"
    /\ \E k \in 1..Len(links) :
          LET l == links[k]
              anns == input[l.view].annotations
          IN \E a, c \in 1..Len(anns) :
                /\ anns[a].at_type = Uri_NE
                /\ anns[c].at_type = Uri_DEP
                /\ ScopeOf(anns[a]) # l.scope
                /\ ScopeOf(anns[c]) # l.scope
                /\ anns[c].properties.head_i = anns[l.c1].properties.head_i

\* C5: an entity whose lookup returns an empty result list gets no entity-link
\* record (the entity-link records of a view are those of its matched
\* lookups, in order) and is neither e1 nor e2 of a relation record.
C5_UnresolvedExcluded ==
    /\ \A k \in 1..Len(opened) :
          LET s == opened[k]
              recs == RecordsIn(mmif[Len(input) + k], Uri_NEL)
              ms == MatchesOf(s)
          IN /\ Len(recs) = Len(ms)
             /\ \A j \in 1..Len(recs) :
                   /\ recs[j].id = ms[j].id
                   /\ recs[j].properties.text = input[s].annotations[ms[j].ann].properties.text
                   /\ recs[j].properties.root_i = input[s].annotations[ms[j].ann].properties.root_i
    /\ \A k \in 1..Len(links) :
          \A e \in {links[k].e1, links[k].e2} :
              \E j \in 1..Len(lookups) :
                  /\ lookups[j].view = links[k].view
                  /\ lookups[j].ann = e
                  /\ lookups[j].search # <<>>

\* a finished view with a relation record, and an unresolved entity that
\* shares a head with a resolved entity of its scope
C5_Witness ==
    /\ pc = "done"
    /\ \E i, j \in 1..Len(lookups) :
          LET anns == input[lookups[i].view].annotations
              u == anns[lookups[i].ann]
              w == anns[lookups[j].ann]
          IN /\ lookups[j].view = lookups[i].view
             /\ LinksOf(lookups[i].view) # <<>>
             /\ ~lookups[i].failed
             /\ lookups[i].search = <<>>
             /\ lookups[j].search # <<>>
             /\ ScopeOf(u) = ScopeOf(w)
             /\ u.properties.root_i # w.properties.root_i
             /\ \E c, d \in 1..Len(anns) :
                   /\ anns[c].at_type = Uri_DEP
                   /\ anns[d].at_type = Uri_DEP
                   /\ ScopeOf(anns[c]) = ScopeOf(u)
                   /\ ScopeOf(anns[d]) = ScopeOf(u)
                   /\ anns[c].properties.child_i = u.properties.root_i
                   /\ anns[d].properties.child_i = w.properties.root_i
                   /\ anns[c].properties.head_i = anns[d].properties.head_i

\* the source view of the k-th new view declares a document for NamedEntity
DeclaresDocument(k) == "document" \in DOMAIN input[opened[k]].metadata.contains[Uri_NE]
DeclaredDocument(k) ==
    input[opened[k]].id \o ":" \o input[opened[k]].metadata.contains[Uri_NE].document

\* C8 as claimed: when the NamedEntity descriptor of an eligible view carries
\* a document sub-field d, the new view is opened for "<source view id>:d" and
\* every entity-link record written into it carries that document.
C8_RecordsCarryViewDocument ==
    \A k \in 1..Len(opened) :
        DeclaresDocument(k) =>
            LET new == mmif[Len(input) + k]
                recs == RecordsIn(new, Uri_NEL)
            IN /\ new.metadata.contains[Uri_NEL].document = DeclaredDocument(k)
               /\ \A j \in 1..Len(recs) :
                     /\ "document" \in DOMAIN recs[j].properties
                     /\ recs[j].properties.document = DeclaredDocument(k)

\* C8 as amended: the new view is opened for "<source view id>:d" (on both
\* output types); an entity-link record written into it carries the document
\* property of its source annotation as it stands, and none when the source
\* annotation has none.
C8_ViewCarriesDocument ==
    \A k \in 1..Len(opened) :
        DeclaresDocument(k) =>
            LET new == mmif[Len(input) + k]
                recs == RecordsIn(new, Uri_NEL)
                ms == MatchesOf(opened[k])
            IN /\ new.metadata.contains[Uri_NEL].document = DeclaredDocument(k)
               /\ new.metadata.contains[Uri_NELR].document = DeclaredDocument(k)
               /\ Len(recs) = Len(ms)
               /\ \A j \in 1..Len(recs) :
                     LET a == input[opened[k]].annotations[ms[j].ann]
                     IN IF "document" \in DOMAIN a.properties
                        THEN /\ "document" \in DOMAIN recs[j].properties
                             /\ recs[j].properties.document = a.properties.document
                        ELSE "document" \notin DOMAIN recs[j].properties

\* a finished view with a declared document and two entity-link records, one
\* from an annotation with a document of its own and one from one without
C8_Witness ==
    /\ pc = "done"
    /\ \E k \in 1..Len(opened) :
          /\ DeclaresDocument(k)
          /\ \E i, j \in 1..Len(RecordsIn(mmif[Len(input) + k], Uri_NEL)) :
                /\ "document" \in DOMAIN RecordsIn(mmif[Len(input) + k], Uri_NEL)[i].properties
                /\ "document" \notin DOMAIN RecordsIn(mmif[Len(input) + k], Uri_NEL)[j].properties

\* the relation search of the view opened last has ended, by returning or by
\* an exception: interested_entities and child_to_head are that view's maps
SearchEnded ==
    /\ opened # <<>>
    /\ pc \in {"scan", "done"} \/ (pc = "error" /\ error = "KeyError")
\* the same, for a search that returned
SearchReturned == opened # <<>> /\ pc \in {"scan", "done"}

\* the (scope, root_i, root_i) of the resolved entities of one scope, the
\* smaller root first, whose child_to_head entries exist and share head_i
SharedHeadPairs ==
    UNION {{<<interested_entities[i].key, r1, r2>> :
              r1, r2 \in {interested_entities[i].val[j].key : j \in 1..Len(interested_entities[i].val)}} :
           i \in 1..Len(interested_entities)}
HeadOf(scope, r) == DictGet(DictGet(child_to_head, scope), r).head_i
HasHead(scope, r) == DictHas(child_to_head, scope) /\ DictHas(DictGet(child_to_head, scope), r)
SharesHead(t) ==
    /\ t[2] < t[3]
    /\ HasHead(t[1], t[2])
    /\ HasHead(t[1], t[3])
    /\ HeadOf(t[1], t[2]) = HeadOf(t[1], t[3])
\* the relation records of the view opened last that pair the roots r1 and r2
\* of a scope, in this order
RecordsFor(scope, r1, r2) ==
    LET s == opened[Len(opened)]
        ls == LinksOf(s)
    IN {k \in 1..Len(ls) :
          /\ ls[k].scope = scope
          /\ input[s].annotations[ls[k].e1].properties.root_i = r1
          /\ input[s].annotations[ls[k].e2].properties.root_i = r2}

\* C4: for any two resolved entities of one view and scope that share a
\* head, exactly one relation record is emitted for the pair: not one for
\* each ordering, and not none.
C4_PairDedup ==
    SearchEnded =>
        \A t \in SharedHeadPairs :
            SharesHead(t) =>
                Cardinality(RecordsFor(t[1], t[2], t[3])) + Cardinality(RecordsFor(t[1], t[3], t[2])) = 1

\* what holds of the code: the same, for a search that returned
C4_PairDedupWhenReturned ==
    SearchReturned =>
        \A t \in SharedHeadPairs :
            SharesHead(t) =>
                Cardinality(RecordsFor(t[1], t[2], t[3])) + Cardinality(RecordsFor(t[1], t[3], t[2])) = 1

\* C6: the relation records of a view correspond one to one to the pairs of
\* resolved entities of one scope, smaller root first, whose root positions
\* both have a child_to_head entry with equal head_i; the record of a pair
\* has that head as rel_i.
C6_RelationsMatchPairs ==
    SearchEnded =>
        LET recs == RecordsIn(mmif[Len(mmif)], Uri_NELR)
            pairs == {t \in SharedHeadPairs : SharesHead(t)}
        IN /\ Len(recs) = Cardinality(pairs)
           /\ Len(recs) = Len(LinksOf(opened[Len(opened)]))
           /\ \A t \in pairs :
                 \E k \in RecordsFor(t[1], t[2], t[3]) :
                     /\ RecordsFor(t[1], t[2], t[3]) = {k}
                     /\ recs[k].properties.e1_root_i = t[2]
                     /\ recs[k].properties.e2_root_i = t[3]
                     /\ recs[k].properties.rel_i = HeadOf(t[1], t[2])

\* what holds of the code: the same, for a search that returned
C6_RelationsMatchPairsWhenReturned ==
    SearchReturned =>
        LET recs == RecordsIn(mmif[Len(mmif)], Uri_NELR)
            pairs == {t \in SharedHeadPairs : SharesHead(t)}
        IN /\ Len(recs) = Cardinality(pairs)
           /\ Len(recs) = Len(LinksOf(opened[Len(opened)]))
           /\ \A t \in pairs :
                 \E k \in RecordsFor(t[1], t[2], t[3]) :
                     /\ RecordsFor(t[1], t[2], t[3]) = {k}
                     /\ recs[k].properties.e1_root_i = t[2]
                     /\ recs[k].properties.e2_root_i = t[3]
                     /\ recs[k].properties.rel_i = HeadOf(t[1], t[2])

\* C7: a matched candidate that lacks an optional field never makes the run
\* end in an error: a run in which no search failed does not end in one.
C7_MissingFieldNeverFatal ==
    pc = "error" => \E k \in 1..Len(lookups) : lookups[k].failed

====
